---- MODULE Spec2Model ----
(***************************************************************************)
(* Model of the useRouterParams hook (src/unnamed/part_000): a store that  *)
(* keeps selection state in the query mapping of the current address.      *)
(*                                                                         *)
(* Strings are sequences of one-character strings, so that the percent     *)
(* encoding is computed character by character.  A query mapping is a      *)
(* sequence of [key, val] entries with distinct keys, in the insertion     *)
(* order a JavaScript object keeps for its string keys.                    *)
(***************************************************************************)
EXTENDS Integers, Sequences, FiniteSets

\* ------------------------------------------------------------------------
\* Bounds of the model
\* ------------------------------------------------------------------------

\* longest sequence stored under one name
MaxSeqLen == 2

\* parameter names the callers use; ClearOnly is a name that is only ever
\* passed to clearParams and therefore never present in the mapping
Names == {"a", "b"}
ClearOnly == "c"
Paths == {"/list"}

\* ------------------------------------------------------------------------
\* Scalars: string | number | boolean
\* ------------------------------------------------------------------------

Str(s) == [t |-> "str", s |-> s, n |-> 0, b |-> FALSE]
Num(n) == [t |-> "num", s |-> <<>>, n |-> n, b |-> FALSE]
Bool(b) == [t |-> "bool", s |-> <<>>, n |-> 0, b |-> b]

\* the scalar arguments the model passes to the store
Scalars == {Str(<<>>), Str(<<" ">>), Bool(TRUE)}
\* further scalars, passed to setParam and removeParam only
Others == {Num(0), Num(1), Bool(FALSE)}
\* the sequence arguments the model passes to setParam and removeParam
SeqArgs == {<<>>, <<Bool(TRUE), Str(<<" ">>)>>,
            <<Str(<<" ">>), Str(<<" ">>)>>}

\* arguments of setParam / removeParam: missing, a scalar or a sequence
Missing == [k |-> "missing", v |-> Str(<<>>), l |-> <<>>]
ArgScalar(v) == [k |-> "scalar", v |-> v, l |-> <<>>]
ArgSeq(l) == [k |-> "seq", v |-> Str(<<>>), l |-> l]

\* JavaScript truthiness of an argument: undefined, "", 0 and false are
\* falsy; an array is truthy even when it is empty
FalsyScalar(v) ==
  \/ v.t = "str" /\ v.s = <<>>
  \/ v.t = "num" /\ v.n = 0
  \/ v.t = "bool" /\ v.b = FALSE
FalsyArg(value) ==
  \/ value.k = "missing"
  \/ value.k = "scalar" /\ FalsyScalar(value.v)

\* ------------------------------------------------------------------------
\* String conversion and URI component encoding
\* ------------------------------------------------------------------------

DigitChars == <<"0", "1", "2", "3", "4", "5", "6", "7", "8", "9">>

RECURSIVE Digits(_)
Digits(n) == IF n < 10 THEN <<DigitChars[n + 1]>>
             ELSE Digits(n \div 10) \o <<DigitChars[(n % 10) + 1]>>

\* String(v), the conversion encodeURIComponent applies to its argument
StringOf(v) ==
  CASE v.t = "str" -> v.s
    [] v.t = "num" -> Digits(v.n)
    [] v.t = "bool" -> IF v.b THEN <<"t", "r", "u", "e">>
                       ELSE <<"f", "a", "l", "s", "e">>

\* characters that pass through the encoding unchanged
Unreserved == {"a", "e", "f", "l", "r", "s", "t", "u", "-", "_", ".", "~"}
                \cup {DigitChars[i] : i \in 1..10}

EncodeChar(c) ==
  IF c \in Unreserved THEN <<c>>
  ELSE CASE c = " " -> <<"%", "2", "0">>
         [] c = "%" -> <<"%", "2", "5">>
         [] c = "&" -> <<"%", "2", "6">>
         [] c = "/" -> <<"%", "2", "F">>
         [] c = "=" -> <<"%", "3", "D">>
         [] c = "?" -> <<"%", "3", "F">>

RECURSIVE EncodeString(_)
EncodeString(s) == IF s = <<>> THEN <<>>
                   ELSE EncodeChar(Head(s)) \o EncodeString(Tail(s))

encodeURIComponent(v) == EncodeString(StringOf(v))

\* the character a two-digit escape stands for; "" when the model has none
Unescape(h1, h2) ==
  CASE h1 = "2" /\ h2 = "0" -> " "
    [] h1 = "2" /\ h2 = "5" -> "%"
    [] h1 = "2" /\ h2 = "6" -> "&"
    [] h1 = "2" /\ h2 = "F" -> "/"
    [] h1 = "3" /\ h2 = "D" -> "="
    [] h1 = "3" /\ h2 = "F" -> "?"
    [] OTHER -> ""

\* decodeURIComponent: [ok, s]; ok is FALSE where the platform throws URIError
RECURSIVE decodeURIComponent(_)
decodeURIComponent(s) ==
  IF s = <<>> THEN [ok |-> TRUE, s |-> <<>>]
  ELSE IF Head(s) # "%"
    THEN LET r == decodeURIComponent(Tail(s))
         IN [ok |-> r.ok, s |-> IF r.ok THEN <<Head(s)>> \o r.s ELSE <<>>]
    ELSE IF Len(s) < 3 \/ Unescape(s[2], s[3]) = ""
      THEN [ok |-> FALSE, s |-> <<>>]
      ELSE LET r == decodeURIComponent(SubSeq(s, 4, Len(s)))
           IN [ok |-> r.ok,
               s |-> IF r.ok THEN <<Unescape(s[2], s[3])>> \o r.s ELSE <<>>]

\* ------------------------------------------------------------------------
\* Query mappings
\* ------------------------------------------------------------------------

\* stored values: a scalar (one encoded string) or a sequence of them
Scalar(s) == [k |-> "scalar", s |-> s, l |-> <<>>]
Sequence(l) == [k |-> "seq", s |-> <<>>, l |-> l]
Absent == [k |-> "absent", s |-> <<>>, l |-> <<>>]

EmptyQuery == <<>>

Keys(q) == {q[i].key : i \in 1..Len(q)}

\* query[name]: the stored value, Absent (undefined) when there is no key
Lookup(q, name) ==
  IF name \in Keys(q)
  THEN q[CHOOSE i \in 1..Len(q) : q[i].key = name].val
  ELSE Absent

\* (variant: the other entries are not carried over)
RestDropped(q, name) == EmptyQuery

\* const { [name]: param, ...rest } = query: every entry but name's, in order
Rest(q, name) ==
  LET Other(e) == e.key # name
  IN SelectSeq(q, Other)

\* { ...rest, [name]: val }: name's entry comes last
With(rest, name, val) == Append(rest, [key |-> name, val |-> val])

\* !param for a stored value: undefined and the empty string are falsy, an
\* array is truthy even when it is empty
FalsyParam(param) ==
  \/ param.k = "absent"
  \/ param.k = "scalar" /\ param.s = <<>>

\* param.filter((element) => element !== encodeURIComponent(value))
Without(l, enc) ==
  LET Differs(element) == element # enc
  IN SelectSeq(l, Differs)

\* param.indexOf(encodeURIComponent(value)) > -1
Contains(l, enc) == \E i \in 1..Len(l) : l[i] = enc

\* value.map((el) => encodeURIComponent(el))
RECURSIVE EncodeAll(_)
EncodeAll(l) ==
  IF l = <<>> THEN <<>>
  ELSE <<encodeURIComponent(Head(l))>> \o EncodeAll(Tail(l))

\* value.map((el) => decodeURIComponent(el)), where no element throws
RECURSIVE DecodeAll(_)
DecodeAll(l) ==
  IF l = <<>> THEN <<>>
  ELSE <<decodeURIComponent(Head(l)).s>> \o DecodeAll(Tail(l))

\* ------------------------------------------------------------------------
\* The operations, as functions of the query they read: whether reload is
\* called, and with which query
\* ------------------------------------------------------------------------

Reload(q) == [issued |-> TRUE, query |-> q]
NoReload == [issued |-> FALSE, query |-> EmptyQuery]

removeParamOut(q, name, value) ==
  LET param == Lookup(q, name)
      rest == Rest(q, name)
  IN IF FalsyParam(param) THEN NoReload
     ELSE IF ~FalsyArg(value) /\ param.k = "seq" /\ value.k # "seq"
       THEN Reload(With(rest, name,
                        Sequence(Without(param.l, encodeURIComponent(value.v)))))
       ELSE Reload(rest)

\* (variant: the entries of the query are spread after the new entry, so
\* that an entry the name already has survives)
setParamKeepsOld(q, name, value) ==
  IF FalsyArg(value) THEN removeParamOut(q, name, Missing)
  ELSE IF name \in Keys(q) THEN Reload(q)
  ELSE Reload(With(q, name,
                   IF value.k = "seq" THEN Sequence(EncodeAll(value.l))
                   ELSE Scalar(encodeURIComponent(value.v))))

\* (variant: a scalar is stored in its string form, not encoded)
setParamRaw(q, name, value) ==
  IF FalsyArg(value) THEN removeParamOut(q, name, Missing)
  ELSE Reload(With(Rest(q, name), name,
                   IF value.k = "seq" THEN Sequence(EncodeAll(value.l))
                   ELSE Scalar(StringOf(value.v))))

setParamOut(q, name, value) ==
  IF FalsyArg(value) THEN removeParamOut(q, name, Missing)
  ELSE Reload(With(Rest(q, name), name,
                   IF value.k = "seq" THEN Sequence(EncodeAll(value.l))
                   ELSE Scalar(encodeURIComponent(value.v))))

\* (variant: the test of params.indexOf(curr) is inverted)
clearParamsKeepsListed(q, params) ==
  IF params = {} THEN Reload(EmptyQuery)
  ELSE LET Kept(e) == e.key \in params
       IN Reload(SelectSeq(q, Kept))

\* (variant: the names passed are ignored)
clearParamsAll(q, params) == Reload(EmptyQuery)

\* params is the set of the names passed; the empty set is the call without
\* arguments, whose request carries no query at all
clearParamsOut(q, params) ==
  IF params = {} THEN Reload(EmptyQuery)
  ELSE LET Kept(e) == e.key \notin params
       IN Reload(SelectSeq(q, Kept))

\* (variant: on a sequence the value is appended without the indexOf test)
toggleParamAppends(q, name, value) ==
  LET param == Lookup(q, name)
      rest == Rest(q, name)
      enc == encodeURIComponent(value)
  IN IF FalsyParam(param) THEN Reload(With(rest, name, Scalar(enc)))
     ELSE IF param.k = "seq"
       THEN Reload(With(rest, name, Sequence(Append(param.l, enc))))
       ELSE IF param.s = enc
            THEN Reload(rest)
            ELSE Reload(With(rest, name, Sequence(<<param.s, enc>>)))

\* (variant: a scalar that differs is replaced, no pair is formed)
toggleParamReplaces(q, name, value) ==
  LET param == Lookup(q, name)
      rest == Rest(q, name)
      enc == encodeURIComponent(value)
  IN IF FalsyParam(param) THEN Reload(With(rest, name, Scalar(enc)))
     ELSE IF param.k = "seq"
       THEN IF Contains(param.l, enc)
            THEN Reload(With(rest, name, Sequence(Without(param.l, enc))))
            ELSE Reload(With(rest, name, Sequence(Append(param.l, enc))))
       ELSE IF param.s = enc
            THEN Reload(rest)
            ELSE Reload(With(rest, name, Scalar(enc)))

toggleParamOut(q, name, value) ==
  LET param == Lookup(q, name)
      rest == Rest(q, name)
      enc == encodeURIComponent(value)
  IN IF FalsyParam(param) THEN Reload(With(rest, name, Scalar(enc)))
     ELSE IF param.k = "seq"
       THEN IF Contains(param.l, enc)
            THEN Reload(With(rest, name, Sequence(Without(param.l, enc))))
            ELSE Reload(With(rest, name, Sequence(Append(param.l, enc))))
       ELSE IF param.s = enc
            THEN Reload(rest)
            ELSE Reload(With(rest, name, Sequence(<<param.s, enc>>)))

Thrown == [k |-> "error", s |-> <<>>, l |-> <<>>]

\* (variant: the stored value is returned as it is, not decoded)
getParamValueRaw(q, name) == Lookup(q, name)

\* what getParamValue returns: the value itself when it is falsy, else the
\* decoded scalar or the sequence of decoded elements; k = "error" where
\* decodeURIComponent throws
getParamValueOut(q, name) ==
  LET value == Lookup(q, name)
  IN IF FalsyParam(value) THEN value
     ELSE IF value.k = "seq"
       THEN IF \A i \in 1..Len(value.l) : decodeURIComponent(value.l[i]).ok
            THEN Sequence(DecodeAll(value.l))
            ELSE Thrown
       ELSE IF decodeURIComponent(value.s).ok
            THEN Scalar(decodeURIComponent(value.s).s)
            ELSE Thrown

\* ------------------------------------------------------------------------
\* State
\* ------------------------------------------------------------------------

VARIABLES
  options,   \* the options the hook was created with
  pathname,  \* the pathname the hook read from the router at the last render
  query,     \* the query the hook read from the router at the last render
  pending,   \* the navigation request in flight, if any: <<>> or <<request>>
  last,      \* the last mutation called: arguments, query read, request made
  got        \* the last getParamValue since the last mutation or landing

vars == <<options, pathname, query, pending, last, got>>

\* (variant: the method option is not looked at)
reloadPush == "push"

\* method and shallow are optional: "unset" stands for a missing option
\* const reload = options?.method === "replace" ? replace : push
reload == IF options.method = "replace" THEN "replace" ELSE "push"
\* const shallow = options?.shallow ?? true
shallow == IF options.shallow = "unset" THEN TRUE ELSE options.shallow = "true"

\* reload({ pathname, query }, undefined, { shallow })
Request(q) ==
  [method |-> reload, pathname |-> pathname, query |-> q, shallow |-> shallow]
NoRequest ==
  [method |-> "none", pathname |-> "", query |-> EmptyQuery, shallow |-> FALSE]

NoCall == [op |-> "none", name |-> "", params |-> {}, value |-> Missing,
           before |-> EmptyQuery, issued |-> 0, req |-> NoRequest,
           fresh |-> TRUE, again |-> FALSE]
NotGot == [name |-> "", ret |-> Absent, valid |-> FALSE]

\* The arguments the model passes.  The first name takes every argument;
\* the second name, which is there to show what an operation on the first
\* leaves alone and what a second caller loses, takes a few.
First == "a"
SetArgs(name) ==
  IF name = First
  THEN {Missing} \cup {ArgScalar(v) : v \in Scalars \cup Others}
         \cup {ArgSeq(l) : l \in SeqArgs}
  ELSE {Missing, ArgScalar(Str(<<" ">>)),
        ArgSeq(<<Bool(TRUE), Str(<<" ">>)>>)}
RemoveArgs(name) ==
  IF name = First
  THEN {Missing} \cup {ArgScalar(v) : v \in Scalars \cup Others}
         \cup {ArgSeq(<<Str(<<" ">>)>>)}
  ELSE {Missing}
ToggleArgs(name) == IF name = First THEN Scalars ELSE {Str(<<" ">>)}
ClearArgs == SUBSET (Names \cup {ClearOnly})

WithinBounds(q) ==
  \A i \in 1..Len(q) : q[i].val.k = "seq" => Len(q[i].val.l) <= MaxSeqLen

Unset == [method |-> "unset", shallow |-> "unset"]

Init ==
  /\ options = Unset
  /\ pathname \in Paths
  /\ query = EmptyQuery
  /\ pending = <<>>
  /\ last = NoCall
  /\ got = NotGot

\* every request made so far has landed and the hook has rendered again
Landed == pending = <<>>

\* A call of a mutation: it reads the query of the last render, and hands
\* at most one request to the router.  A request made while another is in
\* flight supersedes it.
Call(op, name, params, value, out) ==
  /\ WithinBounds(out.query)
  /\ pending' = IF out.issued THEN <<Request(out.query)>> ELSE pending
  /\ last' = [op |-> op, name |-> name, params |-> params, value |-> value,
              before |-> query,
              issued |-> IF out.issued THEN 1 ELSE 0,
              req |-> IF out.issued THEN Request(out.query) ELSE NoRequest,
              fresh |-> pending = <<>> \/ query = Head(pending).query,
              again |-> /\ Landed
                        /\ last.op = op /\ last.name = name
                        /\ last.params = params /\ last.value = value]
  /\ got' = NotGot
  /\ UNCHANGED <<options, pathname, query>>

setParam(name, value) ==
  Call("setParam", name, {}, value, setParamOut(query, name, value))

removeParam(name, value) ==
  Call("removeParam", name, {}, value, removeParamOut(query, name, value))

clearParams(params) ==
  Call("clearParams", "", params, Missing, clearParamsOut(query, params))

toggleParam(name, value) ==
  Call("toggleParam", name, {}, ArgScalar(value),
       toggleParamOut(query, name, value))

getParamValue(name) ==
  /\ got' = [name |-> name, ret |-> getParamValueOut(query, name),
             valid |-> TRUE]
  /\ UNCHANGED <<options, pathname, query, pending, last>>

\* The router adopts the request in flight as the current address and the
\* component renders again, so that the hook reads the new query.
Land ==
  /\ pending # <<>>
  /\ pathname' = Head(pending).pathname
  /\ query' = Head(pending).query
  /\ pending' = Tail(pending)
  /\ got' = NotGot
  /\ UNCHANGED <<options, last>>

Next ==
  \/ \E name \in Names : \E value \in SetArgs(name) : setParam(name, value)
  \/ \E name \in Names : \E value \in RemoveArgs(name) : removeParam(name, value)
  \/ \E params \in ClearArgs : clearParams(params)
  \/ \E name \in Names : \E value \in ToggleArgs(name) : toggleParam(name, value)
  \/ \E name \in Names : getParamValue(name)
  \/ Land

Spec == Init /\ [][Next]_vars

\* The hook created on an address that already carries a query: the router
\* hands over each value percent-decoded once, so that the address ?a=%25
\* is read as a = "%".
InitQueries == {EmptyQuery, <<[key |-> "a", val |-> Scalar(<<"%">>)]>>}

InitAddress ==
  /\ options = Unset
  /\ pathname \in Paths
  /\ query \in InitQueries
  /\ pending = <<>>
  /\ last = NoCall
  /\ got = NotGot

SpecAddress == InitAddress /\ [][Next]_vars

\* The hook created with options: none, or method and shallow given
OptionSets == {Unset,
               [method |-> "replace", shallow |-> "false"],
               [method |-> "push", shallow |-> "true"]}

InitOptions ==
  /\ options \in OptionSets
  /\ pathname \in Paths
  /\ query = EmptyQuery
  /\ pending = <<>>
  /\ last = NoCall
  /\ got = NotGot

SpecOptions == InitOptions /\ [][Next]_vars

\* The callers that never call setParam: from an empty address, the
\* mapping is built by toggleParam, removeParam and clearParams alone
NextNoSet ==
  \/ \E name \in Names : \E value \in RemoveArgs(name) : removeParam(name, value)
  \/ \E params \in ClearArgs : clearParams(params)
  \/ \E name \in Names : \E value \in ToggleArgs(name) : toggleParam(name, value)
  \/ \E name \in Names : getParamValue(name)
  \/ Land

SpecNoSet == Init /\ [][NextNoSet]_vars

\* ------------------------------------------------------------------------
\* Vocabulary of the properties
\* ------------------------------------------------------------------------

AllNames == Names \cup {ClearOnly}

\* the mapping the last call asked the router to adopt
Requested == last.req.query
Issued == last.issued = 1
\* the encoding of the scalar argument of the last call
LastEnc == encodeURIComponent(last.value.v)
Before(name) == Lookup(last.before, name)
After(name) == Lookup(Requested, name)

\* a step in which a mutation is called once everything requested before
\* has landed, and which makes a request
LandedCallStep == Landed /\ pending' # <<>>

\* the position of a key in a mapping
IndexOf(q, key) == CHOOSE i \in 1..Len(q) : q[i].key = key

\* ------------------------------------------------------------------------
\* C1
\* ------------------------------------------------------------------------

\* C1: toggleParam(name, v) on a mapping without name requests a mapping in
\* which name holds the scalar encode(v), for every scalar v ...
C1_FirstToggle ==
  (last.op = "toggleParam" /\ last.name \notin Keys(last.before))
    => (Issued /\ After(last.name) = Scalar(LastEnc))

\* ... and the same call again, made after that request has landed, requests
\* a mapping without name.
C1_SecondToggle ==
  (/\ last.op = "toggleParam"
   /\ last.name \notin Keys(last.before)
   /\ LandedCallStep
   /\ last'.op = "toggleParam"
   /\ last'.name = last.name
   /\ last'.value = last.value)
    => last'.name \notin Keys(last'.req.query)

\* C1, as claimed: toggling a pair on, then off, for every scalar
C1_ToggleOnOff == [](C1_FirstToggle) /\ [][C1_SecondToggle]_vars

\* ------------------------------------------------------------------------
\* C2
\* ------------------------------------------------------------------------

\* C2: starting with name absent, toggleParam(name, a) then
\* toggleParam(name, b), b different from a, requests name = [enc(a), enc(b)]
C2_SecondValue ==
  (/\ last.op = "toggleParam"
   /\ last.name \notin Keys(last.before)
   /\ LandedCallStep
   /\ last'.op = "toggleParam"
   /\ last'.name = last.name
   /\ last'.value # last.value)
    => Lookup(last'.req.query, last.name)
         = Sequence(<<LastEnc, encodeURIComponent(last'.value.v)>>)

\* ... on a sequence, a value that is not an element is appended at the end,
\* and a value that is an element is removed, the rest staying a sequence in
\* its order, also when one element remains
C2_OnSequence ==
  (last.op = "toggleParam" /\ Before(last.name).k = "seq")
    => /\ Issued
       /\ After(last.name) =
            IF Contains(Before(last.name).l, LastEnc)
            THEN Sequence(Without(Before(last.name).l, LastEnc))
            ELSE Sequence(Before(last.name).l \o <<LastEnc>>)

\* C2, as claimed: multi-value accumulation by toggleParam
C2_Accumulation == [](C2_OnSequence) /\ [][C2_SecondValue]_vars

\* ------------------------------------------------------------------------
\* C3
\* ------------------------------------------------------------------------

\* C3, as claimed: removeParam(name, v) with a scalar v deletes from a
\* sequence only the elements equal to encode(v), name staying present with
\* the remaining elements in order; a scalar entry is removed entirely
C3_RemoveParam ==
  (last.op = "removeParam" /\ last.value.k = "scalar")
    => /\ Before(last.name).k = "seq"
            => /\ Issued
               /\ After(last.name)
                    = Sequence(Without(Before(last.name).l, LastEnc))
       /\ Before(last.name).k = "scalar"
            => /\ Issued
               /\ last.name \notin Keys(Requested)

\* ------------------------------------------------------------------------
\* C4
\* ------------------------------------------------------------------------

\* the values C4 calls falsy: missing, "", 0, false and the empty sequence
C4_Falsy(value) == FalsyArg(value) \/ (value.k = "seq" /\ value.l = <<>>)

\* C4, as claimed: setParam(name, falsy) on a name that holds a value does
\* what removeParam(name) does, and the resulting mapping has no name key
C4_SetFalsy ==
  (/\ last.op = "setParam"
   /\ C4_Falsy(last.value)
   /\ last.name \in Keys(last.before))
    => /\ Issued
       /\ Requested = removeParamOut(last.before, last.name, Missing).query
       /\ last.name \notin Keys(Requested)

\* ------------------------------------------------------------------------
\* C5
\* ------------------------------------------------------------------------

\* getParamValue(name) has been called once setParam(name, v), v a scalar
\* that is not falsy, has landed
C5_GotAfterSet ==
  /\ last.op = "setParam"
  /\ last.value.k = "scalar"
  /\ ~FalsyScalar(last.value.v)
  /\ Landed
  /\ got.valid
  /\ got.name = last.name

\* C5, as claimed: the value returned is v itself, unchanged
C5_RoundTripUnchanged ==
  C5_GotAfterSet => (got.ret.k = "scalar" /\ Str(got.ret.s) = last.value.v)

\* C5, amended: the value returned is the string String(v), which is v
\* itself exactly when v is a string
C5_RoundTripString ==
  C5_GotAfterSet
    => /\ got.ret.k = "scalar"
       /\ got.ret.s = StringOf(last.value.v)
       /\ (Str(got.ret.s) = last.value.v) <=> (last.value.v.t = "str")

\* a string that the encoding changes has made the round trip
C5_Witness ==
  /\ C5_GotAfterSet
  /\ last.value.v.t = "str"
  /\ After(last.name).s # last.value.v.s
  /\ got.ret.s = last.value.v.s

\* ------------------------------------------------------------------------
\* C6
\* ------------------------------------------------------------------------

\* the names the last call was about
C6_Touched ==
  IF last.op = "clearParams" THEN last.params ELSE {last.name}

\* C6: a request of setParam, removeParam or toggleParam on a name, or of
\* clearParams on one or more names, holds every other key exactly when the
\* query read held it, with the same stored value
C6_NonInterference ==
  (/\ Issued
   /\ last.op \in {"setParam", "removeParam", "toggleParam", "clearParams"}
   /\ C6_Touched # {})
    => \A key \in AllNames \ C6_Touched :
         /\ key \in Keys(Requested) <=> key \in Keys(last.before)
         /\ After(key) = Before(key)

\* a call changed the entry of its name next to another name's sequence
C6_Witness ==
  /\ Issued
  /\ last.op \in {"setParam", "removeParam", "toggleParam"}
  /\ After(last.name) # Before(last.name)
  /\ \E key \in Names \ {last.name} :
       Before(key).k = "seq" /\ Len(Before(key).l) = 2 /\ After(key) = Before(key)

\* ------------------------------------------------------------------------
\* C7
\* ------------------------------------------------------------------------

\* C7: clearParams() requests the same path with an empty query;
\* clearParams(names) requests exactly the entries whose key is not listed,
\* with their values and in their relative order
C7_ClearParams ==
  last.op = "clearParams"
    => /\ Issued
       /\ last.req.pathname = pathname
       /\ last.params = {} => Requested = EmptyQuery
       /\ last.params # {} =>
            /\ Keys(Requested) = Keys(last.before) \ last.params
            /\ Len(Requested) = Cardinality(Keys(Requested))
            /\ \A key \in Keys(Requested) : After(key) = Before(key)
            /\ \A k1, k2 \in Keys(Requested) :
                 IndexOf(Requested, k1) < IndexOf(Requested, k2)
                   <=> IndexOf(last.before, k1) < IndexOf(last.before, k2)

\* a listed name holding a sequence was dropped and another entry kept
C7_Witness ==
  /\ last.op = "clearParams"
  /\ \E key \in last.params : Before(key).k = "seq"
  /\ Requested # EmptyQuery

\* ------------------------------------------------------------------------
\* C8
\* ------------------------------------------------------------------------

\* C8: clearParams on names that are not in the mapping requests the mapping
\* as it is, and does make a request; clearParams called again with the same
\* names, once the first request has landed, requests what the first left
C8_ClearIdempotent ==
  last.op = "clearParams"
    => /\ Issued
       /\ (last.params # {} /\ last.params \cap Keys(last.before) = {})
            => Requested = last.before
       /\ last.again => Requested = last.before

\* the second of two equal calls, on names, over a mapping that is not empty
C8_Witness ==
  /\ last.op = "clearParams"
  /\ last.again
  /\ last.params # {}
  /\ Requested # EmptyQuery

\* ------------------------------------------------------------------------
\* C9
\* ------------------------------------------------------------------------

\* C9, as claimed: every mutation computes its request from a query that
\* holds the changes of every request made before it
C9_ReadsFresh == last.op # "none" => last.fresh

\* ------------------------------------------------------------------------
\* C10
\* ------------------------------------------------------------------------

\* C10, as claimed: toggleParam, clearParams and setParam of a value that is
\* not falsy make one request; removeParam, and setParam of a falsy value,
\* make none when the name is not present and one when it is
C10_RequestCount ==
  /\ last.issued \in {0, 1}
  /\ last.op \in {"toggleParam", "clearParams"} => last.issued = 1
  /\ (last.op = "setParam" /\ ~FalsyArg(last.value)) => last.issued = 1
  /\ (\/ last.op = "removeParam"
      \/ last.op = "setParam" /\ FalsyArg(last.value))
       => last.issued = IF last.name \in Keys(last.before) THEN 1 ELSE 0

\* ------------------------------------------------------------------------
\* C11
\* ------------------------------------------------------------------------

\* C11, as claimed: under toggleParam an absent name becomes a scalar; a
\* scalar becomes absent when the value matches and a sequence of length 2
\* when it differs; a sequence of length n stays a sequence, of length n + 1
\* when the value was not an element and n - 1 when it was
C11_StateMachine ==
  last.op = "toggleParam"
    => /\ Issued
       /\ Before(last.name).k = "absent" => After(last.name).k = "scalar"
       /\ Before(last.name).k = "scalar"
            => IF Before(last.name).s = LastEnc
               THEN After(last.name).k = "absent"
               ELSE /\ After(last.name).k = "seq"
                    /\ Len(After(last.name).l) = 2
       /\ Before(last.name).k = "seq"
            => /\ After(last.name).k = "seq"
               /\ Len(After(last.name).l) =
                    IF Contains(Before(last.name).l, LastEnc)
                    THEN Len(Before(last.name).l) - 1
                    ELSE Len(Before(last.name).l) + 1

\* ------------------------------------------------------------------------
\* C12
\* ------------------------------------------------------------------------

\* C12, as claimed: no operation signals an error; a stored value that is
\* not an output of the encoding is treated as absent, never raised on
C12_NeverThrows ==
  got.valid
    => /\ got.ret.k # "error"
       /\ (Lookup(query, got.name).k = "scalar"
             /\ ~decodeURIComponent(Lookup(query, got.name).s).ok)
            => got.ret = Absent

\* ------------------------------------------------------------------------
\* C13
\* ------------------------------------------------------------------------

\* the value getParamValue read
C13_Stored == Lookup(query, got.name)

\* C13: getParamValue makes no request and changes nothing of the address ...
C13_Frame == got'.valid => UNCHANGED <<options, pathname, query, pending, last>>

\* ... and returns the absent marker for an absent name, the decoded scalar
\* for a scalar, the decoded elements in storage order for a sequence
C13_Returns ==
  got.valid
    => /\ C13_Stored.k = "absent" => got.ret = Absent
       /\ C13_Stored.k = "scalar"
            => /\ got.ret.k = "scalar"
               /\ got.ret.s = decodeURIComponent(C13_Stored.s).s
       /\ C13_Stored.k = "seq"
            => /\ got.ret.k = "seq"
               /\ Len(got.ret.l) = Len(C13_Stored.l)
               /\ \A i \in 1..Len(C13_Stored.l) :
                    got.ret.l[i] = decodeURIComponent(C13_Stored.l[i]).s

\* C13, as claimed: getParamValue is a pure read of the decoded value
C13_PureRead == [](C13_Returns) /\ [][C13_Frame]_vars

\* ------------------------------------------------------------------------
\* C14
\* ------------------------------------------------------------------------

\* the requests of the state: the one in flight and the one of the last call
C14_Requests ==
  {pending[i] : i \in 1..Len(pending)} \cup (IF Issued THEN {last.req} ELSE {})

\* C14: every request uses replace when the method option is "replace" and
\* push when it is "push" or not given, carries the pathname unchanged, and
\* is shallow exactly when the shallow option is true or not given
C14_Navigation ==
  \A r \in C14_Requests :
    /\ r.method = IF options.method = "replace" THEN "replace" ELSE "push"
    /\ r.pathname = pathname
    /\ r.shallow = (options.shallow \in {"unset", "true"})

\* a request was made by a hook created with method "replace", shallow false
C14_Witness ==
  /\ options.method = "replace"
  /\ options.shallow = "false"
  /\ Issued
  /\ pending = <<last.req>>
  /\ last.req.method = "replace"
  /\ ~last.req.shallow

\* ------------------------------------------------------------------------
\* C15
\* ------------------------------------------------------------------------

\* setParam was called with a scalar that is not falsy or with a sequence
\* that is not empty
C15_SetValue ==
  /\ last.op = "setParam"
  /\ \/ last.value.k = "scalar" /\ ~FalsyScalar(last.value.v)
     \/ last.value.k = "seq" /\ last.value.l # <<>>

\* C15: the request then holds every prior entry but name's, unchanged, and
\* one entry for name: encode(value) for a scalar, the encoded elements in
\* the same number and order for a sequence, whatever name held before
C15_Override ==
  C15_SetValue
    => /\ Issued
       /\ Keys(Requested) = Keys(last.before) \cup {last.name}
       /\ Len(Requested) = Cardinality(Keys(Requested))
       /\ \A key \in Keys(Requested) \ {last.name} : After(key) = Before(key)
       /\ last.value.k = "scalar" => After(last.name) = Scalar(LastEnc)
       /\ last.value.k = "seq"
            => /\ After(last.name).k = "seq"
               /\ Len(After(last.name).l) = Len(last.value.l)
               /\ \A i \in 1..Len(last.value.l) :
                    After(last.name).l[i] = encodeURIComponent(last.value.l[i])

\* a sequence was overridden by a scalar, next to another entry
C15_Witness ==
  /\ C15_SetValue
  /\ last.value.k = "scalar"
  /\ Before(last.name).k = "seq"
  /\ Before(last.name).l # <<>>
  /\ Len(Requested) = 2

\* ------------------------------------------------------------------------
\* C16
\* ------------------------------------------------------------------------

\* the last call took the last remaining element out of a sequence: the
\* sequence held nothing but the encoded value
C16_LastElement ==
  /\ last.op \in {"toggleParam", "removeParam"}
  /\ last.value.k = "scalar"
  /\ Before(last.name).k = "seq"
  /\ Before(last.name).l # <<>>
  /\ \A i \in 1..Len(Before(last.name).l) : Before(last.name).l[i] = LastEnc

\* C16, as claimed: name then stays present with an empty sequence; and on a
\* name that holds an empty sequence getParamValue returns an empty
\* sequence, toggleParam(name, w) requests [encode(w)], and removeParam(name)
\* requests the mapping without name
C16_NonCollapsing ==
  /\ C16_LastElement => (Issued /\ After(last.name) = Sequence(<<>>))
  /\ (got.valid /\ Lookup(query, got.name) = Sequence(<<>>))
       => got.ret = Sequence(<<>>)
  /\ (last.op = "toggleParam" /\ Before(last.name) = Sequence(<<>>))
       => (Issued /\ After(last.name) = Sequence(<<LastEnc>>))
  /\ (last.op = "removeParam" /\ last.value = Missing
        /\ Before(last.name) = Sequence(<<>>))
       => (Issued /\ last.name \notin Keys(Requested))

\* ------------------------------------------------------------------------
\* C17
\* ------------------------------------------------------------------------

\* no element occurs twice
C17_Distinct(l) == \A i, j \in 1..Len(l) : l[i] = l[j] => i = j

\* the mappings of the state: the one read and the one requested
C17_Mappings == {query} \cup {pending[i].query : i \in 1..Len(pending)}

\* C17: from the empty mapping, under toggleParam, removeParam and
\* clearParams, no name ever holds a sequence with the same element twice
C17_NoDuplicates ==
  \A q \in C17_Mappings : \A name \in Names :
    Lookup(q, name).k = "seq" => C17_Distinct(Lookup(q, name).l)

\* toggleParam has appended to a sequence, and the request has landed
C17_Witness ==
  /\ last.op = "toggleParam"
  /\ Landed
  /\ Before(last.name).k = "seq"
  /\ Lookup(query, last.name).k = "seq"
  /\ Len(Lookup(query, last.name).l) = Len(Before(last.name).l) + 1
  /\ Len(Lookup(query, last.name).l) >= 2


\* ------------------------------------------------------------------------
\* C18
\* ------------------------------------------------------------------------

\* the set of encoded values a stored value holds
C18_Values(val) ==
  IF val.k = "scalar" THEN {val.s}
  ELSE IF val.k = "seq" THEN {val.l[i] : i \in 1..Len(val.l)}
  ELSE {}

\* a step that calls toggleParam(name, v) for the second time in succession,
\* the first request having landed: `last` is the first call, `last'` the
\* second
C18_SecondToggle ==
  /\ LandedCallStep
  /\ last.op = "toggleParam"
  /\ last'.op = "toggleParam"
  /\ last'.again
  /\ last.value.v # Str(<<>>)
  /\ Lookup(last.before, last.name) # Scalar(<<>>)

C18_TwoToggles ==
  C18_SecondToggle =>
    C18_Values(Lookup(last'.req.query, last.name))
      = C18_Values(Lookup(last.before, last.name))

\* C18: where name does not hold the empty string and v is not the empty
\* string, two calls of toggleParam(name, v) in succession, each request
\* landing, leave the set of encoded values stored under name as it was
C18_Involution == [][C18_TwoToggles]_vars

\* the second of two toggles has taken v out of the pair the first formed
\* from a scalar: the set is back, the shape is a one-element sequence
C18_Witness ==
  /\ last.op = "toggleParam"
  /\ last.again
  /\ Landed
  /\ last.value.v # Str(<<>>)
  /\ Before(last.name).k = "seq"
  /\ Len(Before(last.name).l) = 2
  /\ Before(last.name).l[1] # <<>>
  /\ Lookup(query, last.name) = Sequence(<<Before(last.name).l[1]>>)


\* ------------------------------------------------------------------------
\* C19
\* ------------------------------------------------------------------------

\* the strings a stored value holds, and the strings a mapping holds
C19_StringsOf(val) ==
  IF val.k = "scalar" THEN {val.s}
  ELSE IF val.k = "seq" THEN {val.l[i] : i \in 1..Len(val.l)}
  ELSE {}

C19_Strings(q) == UNION {C19_StringsOf(q[i].val) : i \in 1..Len(q)}

\* the scalars an argument passes to the store
C19_Passed(value) ==
  IF value.k = "scalar" THEN {value.v}
  ELSE IF value.k = "seq" THEN {value.l[i] : i \in 1..Len(value.l)}
  ELSE {}

\* a call stores nothing but what the mapping it read held and the encodings
\* of the scalars it was passed
C19_Provenance ==
  Issued =>
    C19_Strings(Requested) \subseteq
      C19_Strings(last.before)
        \cup {encodeURIComponent(v) : v \in C19_Passed(last.value)}

\* ret is val with every string replaced by the string form of a scalar the
\* string is the encoding of
C19_StringForm(val, ret) ==
  LET FormOf(s, r) ==
        \E v \in Scalars \cup Others :
          s = encodeURIComponent(v) /\ r = StringOf(v)
  IN CASE val.k = "scalar" -> ret.k = "scalar" /\ FormOf(val.s, ret.s)
       [] val.k = "seq" ->
            /\ ret.k = "seq"
            /\ Len(ret.l) = Len(val.l)
            /\ \A i \in 1..Len(val.l) : FormOf(val.l[i], ret.l[i])
       [] OTHER -> ret = Absent

\* C19: from the empty mapping, every string stored is the encoding of a
\* scalar that was passed, and getParamValue on any name does not throw and
\* returns the string form of those scalars
C19_EncodedOnly ==
  /\ C19_Provenance
  /\ \A name \in Names :
       /\ getParamValueOut(query, name) # Thrown
       /\ C19_StringForm(Lookup(query, name), getParamValueOut(query, name))

\* a stored string that differs from the string passed has been read back
C19_Witness ==
  /\ last.op \in {"setParam", "toggleParam"}
  /\ Landed
  /\ got.valid
  /\ Lookup(query, got.name).k = "seq"
  /\ encodeURIComponent(Str(<<" ">>)) \in C19_StringsOf(Lookup(query, got.name))
  /\ encodeURIComponent(Str(<<" ">>)) # <<" ">>
  /\ <<" ">> \in C19_StringsOf(got.ret)

====
